---- MODULE Spec2Model ----
(***************************************************************************)
(* Page layout and registration-mark engine of print-proxy-prep:           *)
(* pdf_gen and draw_cross of src/pdf_utils.py, driving a reportlab canvas.  *)
(*                                                                         *)
(* Lengths are kept in hundredths of a point, so that the card size        *)
(* 2.48in x 3.46in (178.56pt x 249.12pt) is an integer.  The canvas is      *)
(* modelled by its graphics state (line width, dash array, dash phase,     *)
(* stroke colour) and by the log of the drawing calls it received.         *)
(***************************************************************************)
EXTENDS Integers, Sequences, FiniteSets, TLC

\* ------------------------------------------------------------------ bounds
\* largest repeat count of one card
MaxCount == 5
\* number of pdf_gen calls made on the same project
MaxCalls == 2
\* largest half-length and stroke width handed to draw_cross directly
MaxHalf == 6
MaxWidth == 2
\* number of direct draw_cross calls on one canvas
MaxDraws == 2
\* largest count reached or typed in the GUI
MaxField == 2
\* number of callbacks the event loop dispatches during one wait of
\* show_popup
MaxWaitEvents == 1
\* number of render_pdf calls suspended in show_popup at one time
MaxNested == 1

\* ------------------------------------------------------------ input domains
\* hundredths of a point per point
Pt == 100
Imgs == {"a.png", "b.png"}
Orients == {"Portrait", "Landscape"}
\* reportlab.lib.pagesizes: letter (612pt x 792pt), legal (612pt x 1008pt)
\* and A4 (210mm x 297mm, 595.2756pt x 841.8898pt, kept to the nearest
\* hundredth of a point)
Letter == <<612 * Pt, 792 * Pt>>
Legal == <<612 * Pt, 1008 * Pt>>
A4 == <<59528, 84189>>
\* the paper sizes of a project and size_map of render_pdf
PageSizes == {"Letter", "A4", "Legal"}
size_map(name) ==
    CASE name = "Letter" -> Letter
      [] name = "A4" -> A4
      [] name = "Legal" -> Legal
\* page sizes handed to pdf_gen: Letter, a sheet holding two cards side by
\* side (one when rotated), a strip narrower than a card, and a sheet whose
\* width is three card widths to the hundredth (535.68pt = 3 x 178.56pt), and
\* a strip whose height is five card heights (1245.6pt = 5 x 249.12pt)
Sizes == {Letter, <<400 * Pt, 260 * Pt>>, <<100 * Pt, 260 * Pt>>,
          <<53568, 260 * Pt>>, <<180 * Pt, 124560>>}

\* an ordered mapping image -> count: a sequence of <<key, value>> items
\* with pairwise distinct keys, in insertion order
CardMaps ==
    UNION { { s \in [1..n -> Imgs \X (0..MaxCount)] :
                \A p, q \in 1..n : p # q => s[p][1] # s[q][1] }
            : n \in 0..Cardinality(Imgs) }

\* ------------------------------------------------------------------- state
VARIABLES
    p_dict,       \* project: [cards |-> ordered mapping, orient |-> string,
                  \* pagesize |-> name of a paper size]
    size,         \* the size argument of pdf_gen, <<width, height>>
    pc,           \* "idle", "loop", "marks", "popup", "done" or "error"
    cols, rows,   \* grid capacity of a page
    rx, ry,       \* centring margins, in whole points
    total_cards,  \* sum of the counts
    pbreak,       \* cards per page
    i,            \* running index of the card being placed
    k, n,         \* position of the two for loops: item k, n copies placed
    cy, cx,       \* position of the two mark loops
    pages,        \* the canvas: graphics state, call log, saved flag
    err,          \* exception that ended the call, "" if none
    calls,        \* number of pdf_gen calls started
    first,        \* call log of the first call, once it has ended
    crop_dir,     \* names of the files present in images/crop
    card_vars,    \* GUI: displayed card -> content of its count entry
    print_json,   \* GUI: <<>> if print.json is absent, else <<saved project>>
    arg,          \* arguments of a direct draw_cross call
    geo1,         \* geometry of the call made before the input was transposed
    display,      \* TRUE if Tk can open a window (a display is available)
    served,       \* callbacks dispatched in show_popup since mainloop was left
    outer         \* the pdf_gen calls suspended in show_popup while a render
                  \* started from their wait runs, the oldest first

\* what pdf_gen neither reads (but for crop_dir and display) nor writes
env == <<crop_dir, card_vars, print_json, arg, geo1, display, served, outer>>

vars == <<p_dict, size, pc, cols, rows, rx, ry, total_cards, pbreak, i, k, n,
          cy, cx, pages, err, calls, first, env>>

\* -------------------------------------------------------------- geometry
\* card width and height in hundredths of a point: 2.48 * 72, 3.46 * 72
CW == 248 * 72
CH == 346 * 72

White == <<255, 255, 255>>
Black == <<0, 0, 0>>

\* pw, ph, w and h are IEEE-754 doubles.  A double x that lies within a
\* rounding error of H hundredths of a point is kept as H and the integer e
\* with x = H/100 + e * 2^-51 / 25 exactly (1/100 is 2^49 of these units, so
\* e is an integer for every double of magnitude 2 or more).

\* 2^k modulo 25 (2 has order 20 modulo 25)
Pow2Mod25(x) == (2 ^ (x % 20)) % 25

\* the binade [2^b, 2^(b+1)) of H/100, for H/100 >= 2
Binade(H) == CHOOSE b \in 1..20 : 100 * 2 ^ b <= H /\ H < 100 * 2 ^ (b + 1)

\* spacing of the doubles of binade b, 2^(b-52), in units of 2^-51 / 25
Ulp(b) == 25 * 2 ^ (b - 1)

\* H/100 lies Frac(H, b) * 2^(b-1) units above a double of binade b, and
\* the mantissa of that double has the parity of Frac(H, b)
Frac(H, b) == ((H % 25) * Pow2Mod25(50 - b)) % 25

\* the result of an operation whose exact value is H/100 + E units, rounded
\* to the nearest double, ties to even: the e of that double.  E is far
\* below a hundredth, so the value lies in the binade of H/100, except below
\* it when H/100 is the power of two itself and E < 0: the doubles there
\* are spaced half as wide
FRound(H, E) ==
    IF H = 0 THEN 0
    ELSE LET b0 == Binade(H)
             b == IF H = 100 * 2 ^ b0 /\ E < 0 /\ b0 > 1 THEN b0 - 1 ELSE b0
             g == 2 ^ (b - 1)
             r == Frac(H, b)
             t == r * g + E
             u == Ulp(b)
             q == t \div u
             m == t % u
             up == 2 * m > u \/ (2 * m = u /\ (r + q) % 2 = 1)
         IN  (IF up THEN q + 1 ELSE q) * u - r * g

\* the double a decimal of H hundredths stands for (a float literal, a page
\* size in points)
Literal(H) == FRound(H, 0)

\* slip: math.ceil in place of round
PyRoundUp(num, den, e) == (num + den - 1) \div den

\* Python round(x) of the double x = num / den + e units, for num >= 0,
\* den > 0 and e far below a hundredth: to the nearest integer, and when the
\* decimal is a tie the double lies on the side of e, or on the tie itself
\* (e = 0) and is rounded half to even
PyRound(num, den, e) ==
    LET q == num \div den
        r2 == 2 * (num % den)
    IN  IF r2 < den THEN q
        ELSE IF r2 > den THEN q + 1
        ELSE IF e > 0 THEN q + 1
        ELSE IF e < 0 THEN q
        ELSE IF q % 2 = 0 THEN q ELSE q + 1

\* w, h = 2.48 * 72, 3.46 * 72: the product of the double 2.48 (3.46) by 72,
\* rounded; the doubles w and h are CW/100 + wErr units and CH/100 + hErr
\* units
wErr == FRound(CW, 72 * Literal(248))
hErr == FRound(CH, 72 * Literal(346))

\* a // b of the doubles a = Ha/100 + ea units and b = Hb/100 + eb units:
\* the floor of their exact quotient; the errors decide it only when Ha is a
\* multiple of Hb
FloorDiv(Ha, ea, Hb, eb) ==
    LET c0 == Ha \div Hb
    IN  IF Ha % Hb # 0 THEN c0
        ELSE IF ea - c0 * eb >= 0 THEN c0
        ELSE c0 - 1

\* slip: the pair is never swapped
OrientedAsGiven(sz, orient) == sz

\* size = tuple(size[::-1]) if rotate else size
Oriented(sz, orient) ==
    IF orient = "Landscape" THEN <<sz[2], sz[1]>> ELSE sz

\* cols, rows = int(pw // w), int(ph // h)
GridCols(pw) == FloorDiv(pw, Literal(pw), CW, wErr)
GridRows(ph) == FloorDiv(ph, Literal(ph), CH, hErr)

\* rx, ry = round((pw - (w * cols)) / 2), round((ph - (h * rows)) / 2): the
\* product is rounded, the difference of the two doubles and its half are
\* exact
MarginX(pw, c) ==
    PyRound(pw - CW * c, 2 * Pt, Literal(pw) - FRound(CW * c, wErr * c))
MarginY(ph, r) ==
    PyRound(ph - CH * r, 2 * Pt, Literal(ph) - FRound(CH * r, hErr * r))

\* total_cards = sum(img_dict.values())
RECURSIVE SumCounts(_)
SumCounts(cards) ==
    IF cards = <<>> THEN 0 ELSE cards[1][2] + SumCounts(Tail(cards))

\* img_path = os.path.join(os.path.dirname(__file__), "images", "crop", img)
ImgPath(img) == <<"images", "crop", img>>

\* ----------------------------------------------------------------- canvas
\* before the first call there is no canvas: nothing drawn, nothing saved
NoCanvas ==
    [pagesize |-> <<0, 0>>, lineWidth |-> 1, dash |-> <<>>, phase |-> 0,
     color |-> Black, ops |-> <<>>, saved |-> FALSE, saves |-> 0,
     savedAt |-> 0]

\* slip: the canvas of the previous call is kept and drawn on again
KeptCanvas(sz) == [pages EXCEPT !.pagesize = sz, !.saved = FALSE]

\* pages = canvas.Canvas(pdf_fp, pagesize=size): a new, empty document
NewCanvas(sz) ==
    [pagesize |-> sz, lineWidth |-> 1, dash |-> <<>>, phase |-> 0,
     color |-> Black, ops |-> <<>>, saved |-> FALSE, saves |-> 0,
     savedAt |-> 0]

\* slip: the line width is never set
SetLineWidthIgnored(can, s) == can
SetLineWidth(can, s) == [can EXCEPT !.lineWidth = s]
\* slip: the phase argument is ignored
SetDashNoPhase(can, array, ph) == [can EXCEPT !.dash = array, !.phase = 0]
SetDash(can, array, ph) == [can EXCEPT !.dash = array, !.phase = ph]
SetStrokeColorRGB(can, rgb) == [can EXCEPT !.color = rgb]

\* can.line(x1, y1, x2, y2): stroked with the graphics state in force
Line(can, x1, y1, x2, y2) ==
    [can EXCEPT !.ops = Append(@,
        [op |-> "line", x1 |-> x1, y1 |-> y1, x2 |-> x2, y2 |-> y2,
         width |-> can.lineWidth, dash |-> can.dash, phase |-> can.phase,
         color |-> can.color])]

ShowPage(can) == [can EXCEPT !.ops = Append(@, [op |-> "showPage"])]

DrawImage(can, path, x, y, w, h) ==
    [can EXCEPT !.ops = Append(@,
        [op |-> "drawImage", img |-> path, x |-> x, y |-> y,
         w |-> w, h |-> h])]

\* slip: the document is never written
SaveNotCalled(can) == can

\* pages.save(): saves counts the calls, savedAt is the length of the call
\* log at the last of them
Save(can) ==
    [can EXCEPT !.saved = TRUE, !.saves = @ + 1, !.savedAt = Len(can.ops)]

\* draw_cross(can, x, y, c, s); x, y in hundredths of a point, c and s in
\* points
draw_cross(can, x, y, c, s) ==
    LET dash == <<s, s>>
        c1 == SetLineWidth(can, s)
        c2 == SetDash(c1, dash, 0)
        c3 == SetStrokeColorRGB(c2, White)
        c4 == Line(c3, x, y - c * Pt, x, y + c * Pt)
        c5 == SetStrokeColorRGB(c4, Black)
        c6 == Line(c5, x - c * Pt, y, x + c * Pt, y)
        c7 == SetDash(c6, dash, s)
        c8 == SetStrokeColorRGB(c7, White)
        c9 == Line(c8, x - c * Pt, y, x + c * Pt, y)
        c10 == SetStrokeColorRGB(c9, Black)
    IN  Line(c10, x, y - c * Pt, x, y + c * Pt)

\* default arguments of draw_cross
DefaultC == 6
DefaultS == 1

\* slip: the centring margin is left out of the abscissa
MarkXNoMargin(x) == CW * x

\* the point of the cx-th, cy-th intersection: (rx + w * cx, ry + h * cy)
MarkX(x) == rx * Pt + CW * x
MarkY(y) == ry * Pt + CH * y

\* slip: divmod(j, rows) in place of divmod(j, cols)
PlaceYByRows(j) == (j \div rows) * CH + ry * Pt

\* x_idx * w + rx and y_idx * h + ry, with y_idx, x_idx = divmod(j, cols)
PlaceX(j) == (j % cols) * CW + rx * Pt
PlaceY(j) == (j \div cols) * CH + ry * Pt

\* slip: one pass too many, range(img_dict[img] + 1)
InRangeInclusive(done, count) == done <= count

\* for _ in range(img_dict[img]): another pass after done passes
InRange(done, count) == done < count

\* slip: the break is tested on the second cell of a page
NeedShowPageLate(j, idx) == j = 1 /\ idx > 0

\* slip: the test i > 0 is dropped
NeedShowPageAtZero(j, idx) == j = 0

\* if j == 0 and i > 0
NeedShowPage(j, idx) == j = 0 /\ idx > 0

\* slip: the marks are drawn after the first card of a page
NeedMarksEarly(j, idx) == j = 0

\* slip: the test of the globally last card is dropped
NeedMarksFullOnly(j, idx) == j = pbreak - 1

\* if j == pbreak - 1 or i == total_cards - 1
NeedMarks(j, idx) == j = pbreak - 1 \/ idx = total_cards - 1

\* ------------------------------------------------------------------ actions
\* no call of pdf_gen made yet
NoCall ==
    /\ pc = "idle"
    /\ cols = 0 /\ rows = 0 /\ rx = 0 /\ ry = 0
    /\ total_cards = 0 /\ pbreak = 0 /\ i = 0 /\ k = 1 /\ n = 0
    /\ cy = 0 /\ cx = 0
    /\ pages = NoCanvas
    /\ err = ""
    /\ calls = 0
    /\ first = <<>>

\* arguments x, y, c, s of draw_cross and the number n of calls made with them
NoArg == [x |-> 0, y |-> 0, c |-> 0, s |-> 0, n |-> 0]

\* no GUI around pdf_gen, no direct draw_cross call, no transposed input
NoGui ==
    /\ card_vars = <<>>
    /\ print_json = <<>>
    /\ arg = NoArg
    /\ geo1 = <<>>
    /\ served = 0
    /\ outer = <<>>

\* pdf_gen alone, every image of the project present in images/crop and a
\* display for its popup
Init ==
    /\ p_dict \in [cards : CardMaps, orient : Orients, pagesize : {"Letter"}]
    /\ size \in Sizes
    /\ NoCall
    /\ NoGui
    /\ crop_dir = Imgs
    /\ display = TRUE

\* pdf_gen(p_dict, arg_size) up to the first for: geometry, a new canvas,
\* i = 0
PdfGen(arg_size) ==
    /\ calls < MaxCalls
    /\ size' = arg_size
    /\ LET sz == Oriented(arg_size, p_dict.orient)
           c == GridCols(sz[1])
           r == GridRows(sz[2])
       IN  /\ pages' = NewCanvas(sz)
           /\ cols' = c
           /\ rows' = r
           /\ rx' = MarginX(sz[1], c)
           /\ ry' = MarginY(sz[2], r)
           /\ pbreak' = c * r
    /\ total_cards' = SumCounts(p_dict.cards)
    /\ i' = 0
    /\ k' = 1 /\ n' = 0
    /\ cy' = 0 /\ cx' = 0
    /\ pc' = "loop"
    /\ err' = ""
    /\ calls' = calls + 1
    /\ UNCHANGED <<p_dict, first, crop_dir, card_vars, print_json, arg, geo1,
                   display, served>>

\* a call pdf_gen(p_dict, size) made once the previous one has ended
Call ==
    /\ pc \in {"idle", "done", "error"}
    /\ PdfGen(size)
    /\ UNCHANGED outer

\* for img in img_dict.keys(): the inner range is exhausted, take the next key
NextImg ==
    /\ pc = "loop"
    /\ k <= Len(p_dict.cards)
    /\ ~InRange(n, p_dict.cards[k][2])
    /\ k' = k + 1 /\ n' = 0
    /\ UNCHANGED <<p_dict, size, pc, cols, rows, rx, ry, total_cards, pbreak,
                   i, cy, cx, pages, err, calls, first, env>>

\* one pass of the inner for body with cards_per_page > 0 and an image
\* file the writer can open: the page break, the image, and either i += 1 or the entry into the mark loops
Place ==
    /\ pc = "loop"
    /\ k <= Len(p_dict.cards)
    /\ InRange(n, p_dict.cards[k][2])
    /\ pbreak # 0
    /\ p_dict.cards[k][1] \in crop_dir
    /\ LET j == i % pbreak
           c1 == IF NeedShowPage(j, i) THEN ShowPage(pages) ELSE pages
       IN  /\ pages' = DrawImage(c1, ImgPath(p_dict.cards[k][1]),
                                 PlaceX(j), PlaceY(j), CW, CH)
           /\ IF NeedMarks(j, i)
              THEN /\ pc' = "marks"
                   /\ cy' = 0 /\ cx' = 0
                   /\ UNCHANGED <<i, n>>
              ELSE /\ i' = i + 1
                   /\ n' = n + 1
                   /\ UNCHANGED <<pc, cy, cx>>
    /\ UNCHANGED <<p_dict, size, cols, rows, rx, ry, total_cards, pbreak,
                   k, err, calls, first, env>>

\* one pass of the inner mark loop: draw_cross(pages, rx + w * cx,
\* ry + h * cy); after the last intersection, i += 1 ends the card's pass
Cross ==
    /\ pc = "marks"
    /\ pages' = draw_cross(pages, MarkX(cx), MarkY(cy), DefaultC, DefaultS)
    /\ IF cx < cols
       THEN /\ cx' = cx + 1
            /\ UNCHANGED <<cy, pc, i, n>>
       ELSE IF cy < rows
       THEN /\ cx' = 0
            /\ cy' = cy + 1
            /\ UNCHANGED <<pc, i, n>>
       ELSE /\ pc' = "loop"
            /\ i' = i + 1
            /\ n' = n + 1
            /\ UNCHANGED <<cy, cx>>
    /\ UNCHANGED <<p_dict, size, cols, rows, rx, ry, total_cards, pbreak,
                   k, err, calls, first, env>>

\* one pass of the inner for body with cards_per_page = 0:
\* divmod(i, pbreak) raises ZeroDivisionError, which leaves pdf_gen
PlaceDivZero ==
    /\ pc = "loop"
    /\ k <= Len(p_dict.cards)
    /\ InRange(n, p_dict.cards[k][2])
    /\ pbreak = 0
    /\ pc' = "error"
    /\ err' = "ZeroDivisionError"
    /\ first' = IF calls = 1 THEN pages.ops ELSE first
    /\ UNCHANGED <<p_dict, size, cols, rows, rx, ry, total_cards, pbreak,
                   i, k, n, cy, cx, pages, calls, env>>

\* the outer for is exhausted: show_popup("Saving PDF...") opens its window,
\* sets the timer that destroys it, takes the grab and enters wait_window,
\* which runs the event loop until the window is destroyed
ShowPopup ==
    /\ pc = "loop"
    /\ k > Len(p_dict.cards)
    /\ display
    /\ pc' = "popup"
    /\ UNCHANGED <<p_dict, size, cols, rows, rx, ry, total_cards, pbreak,
                   i, k, n, cy, cx, pages, err, calls, first, env>>

\* the window of the popup is destroyed: wait_window and show_popup return,
\* then pages.save() and the viewer is opened
Finish ==
    /\ pc = "popup"
    /\ pages' = Save(pages)
    /\ pc' = "done"
    /\ first' = IF calls = 1 THEN pages.ops ELSE first
    /\ UNCHANGED <<p_dict, size, cols, rows, rx, ry, total_cards, pbreak,
                   i, k, n, cy, cx, err, calls, env>>

Next ==
    Call \/ NextImg \/ Place \/ Cross \/ PlaceDivZero \/ ShowPopup \/ Finish

Spec == Init /\ [][Next]_vars

\* ------------------- pdf_gen with missing image files or with no display
\* any subset of the images may be absent from images/crop, and Tk may have
\* no display to open a window on
InitFail ==
    /\ p_dict \in [cards : CardMaps, orient : Orients, pagesize : {"Letter"}]
    /\ size \in Sizes
    /\ NoCall
    /\ NoGui
    /\ crop_dir \in SUBSET Imgs
    /\ display \in BOOLEAN

\* slip: a card whose file cannot be opened is skipped, as under
\* try: ... except OSError: continue
PlaceSkip ==
    /\ pc = "loop"
    /\ k <= Len(p_dict.cards)
    /\ InRange(n, p_dict.cards[k][2])
    /\ pbreak # 0
    /\ p_dict.cards[k][1] \notin crop_dir
    /\ n' = n + 1
    /\ UNCHANGED <<p_dict, size, pc, cols, rows, rx, ry, total_cards, pbreak,
                   i, k, cy, cx, pages, err, calls, first, env>>

\* one pass of the inner for body with cards_per_page > 0 and an image file
\* the writer cannot open: the page break if one is due, then drawImage
\* raises; pdf_gen has no handler, the exception leaves it and reaches
\* render_pdf, which has none either
PlaceFail ==
    /\ pc = "loop"
    /\ k <= Len(p_dict.cards)
    /\ InRange(n, p_dict.cards[k][2])
    /\ pbreak # 0
    /\ p_dict.cards[k][1] \notin crop_dir
    /\ pages' = IF NeedShowPage(i % pbreak, i) THEN ShowPage(pages) ELSE pages
    /\ pc' = "error"
    /\ err' = "OSError"
    /\ first' = IF calls = 1 THEN pages'.ops ELSE first
    /\ UNCHANGED <<p_dict, size, cols, rows, rx, ry, total_cards, pbreak,
                   i, k, n, cy, cx, calls, env>>

\* the outer for is exhausted and there is no display: tk.Toplevel() raises
\* TclError in show_popup, which leaves pdf_gen before pages.save()
PopupFail ==
    /\ pc = "loop"
    /\ k > Len(p_dict.cards)
    /\ ~display
    /\ pc' = "error"
    /\ err' = "TclError"
    /\ first' = IF calls = 1 THEN pages.ops ELSE first
    /\ UNCHANGED <<p_dict, size, cols, rows, rx, ry, total_cards, pbreak,
                   i, k, n, cy, cx, pages, calls, env>>

NextFail == Next \/ PlaceFail \/ PopupFail

SpecFail == InitFail /\ [][NextFail]_vars

\* --------------------------------- pdf_gen on a page and on its transpose
\* orientation values of a project: the two the GUI sets and one it does not
OrientValues == Orients \cup {"landscape"}

InitOrient ==
    /\ p_dict \in [cards : CardMaps, orient : OrientValues,
                    pagesize : {"Letter"}]
    /\ size \in Sizes
    /\ NoCall
    /\ NoGui
    /\ crop_dir = Imgs
    /\ display = TRUE

\* between two calls the caller replaces the input (a, b), Landscape by
\* (b, a), Portrait; the geometry of the call just ended is kept in geo1
Transpose ==
    /\ pc \in {"done", "error"}
    /\ calls = 1
    /\ geo1 = <<>>
    /\ p_dict.orient = "Landscape"
    /\ p_dict' = [p_dict EXCEPT !.orient = "Portrait"]
    /\ size' = <<size[2], size[1]>>
    /\ geo1' = <<cols, rows, rx, ry>>
    /\ UNCHANGED <<pc, cols, rows, rx, ry, total_cards, pbreak, i, k, n,
                   cy, cx, pages, err, calls, first, crop_dir, card_vars,
                   print_json, arg, display, served, outer>>

NextOrient == Next \/ Transpose

SpecOrient == InitOrient /\ [][NextOrient]_vars

\* ------------------------------------ pdf_gen over a range of page sizes
\* room left beside the grid, in hundredths of a point: none, under a point,
\* a point, between one and two, an odd and an even number of points
Slacks == {0, 50, 99, 100, 150, 300, 500}
\* pages of one to three cards across and one or two down plus that room,
\* their transposes, strips of five and of seven cards down, and the three
\* paper sizes of the GUI
GeomSizes ==
    LET upright == {<<CW * a + dx, CH * b + dy>> :
                        a \in 1..3, b \in 1..2, dx \in Slacks, dy \in Slacks}
        strips == {<<180 * Pt, CH * b + dy>> : b \in {5, 7}, dy \in {0, 300}}
    IN  upright \cup {<<sz[2], sz[1]>> : sz \in upright} \cup strips
            \cup {Letter, A4, Legal}

InitGeom ==
    /\ p_dict \in [cards : {<<<<"a.png", 1>>>>,
                            <<<<"b.png", 2>>, <<"a.png", 1>>>>},
                    orient : Orients, pagesize : {"Letter"}]
    /\ size \in GeomSizes
    /\ NoCall
    /\ NoGui
    /\ crop_dir = Imgs
    /\ display = TRUE

SpecGeom == InitGeom /\ [][Next]_vars

\* ------------------------------------------------ the GUI around pdf_gen
\* PDFProxyPrinter of src/gui.py: print_dict is p_dict; the count entry of
\* a card holds an integer (text that is not one makes IntVar.get raise and
\* is left out)
Keys(cards) == {cards[q][1] : q \in DOMAIN cards}
CountOf(cards, c) == cards[CHOOSE q \in DOMAIN cards : cards[q][1] = c][2]

\* os.listdir of a set of files: the names, in any order
Listings(S) ==
    {l \in [1..Cardinality(S) -> S] :
        \A p, q \in DOMAIN l : p # q => l[p] # l[q]}

\* for img in os.listdir(crop_dir): if img not in cards: cards[img] = 1
RECURSIVE AddNew(_, _)
AddNew(cards, listing) ==
    IF listing = <<>> THEN cards
    ELSE AddNew(IF listing[1] \in Keys(cards) THEN cards
                ELSE Append(cards, <<listing[1], 1>>),
                Tail(listing))

\* print_dict["cards"][card] = new_val: the key keeps its place
SetCount(cards, c, v) ==
    [q \in DOMAIN cards |-> IF cards[q][1] = c THEN <<c, v>> ELSE cards[q]]

\* refresh_cards: an IntVar(value=count) for every card whose file exists
Refreshed(cards, dir) ==
    [c \in Keys(cards) \cap dir |-> CountOf(cards, c)]

\* slip: the new count is not clamped
NewValUnclamped(current, delta) == current + delta

\* new_val = max(0, current + delta)
NewVal(current, delta) ==
    IF current + delta > 0 THEN current + delta ELSE 0

\* load_project_configuration: print.json if present, else a new project;
\* either way every file of images/crop not yet a key is added with count 1
Loaded(json, listing) ==
    IF json # <<>>
    THEN [json[1] EXCEPT !.cards = AddNew(@, listing)]
    ELSE [cards |-> AddNew(<<>>, listing), orient |-> "Portrait",
          pagesize |-> "Letter"]

\* the files crop_images can write: one per image placed in images/
Found == {"a.png"}

\* __init__ on a first start: no print.json, some images already cropped
InitGui ==
    /\ crop_dir \in SUBSET Found
    /\ print_json = <<>>
    /\ \E l \in Listings(crop_dir) : p_dict = Loaded(<<>>, l)
    /\ card_vars = Refreshed(p_dict.cards, crop_dir)
    /\ size = Letter
    /\ NoCall
    /\ arg = NoArg
    /\ geo1 = <<>>
    /\ display = TRUE
    /\ served = 0
    /\ outer = <<>>

\* the Tk event loop takes a callback: in mainloop when no render is under
\* way, or in the wait_window of show_popup, between the last drawing call of
\* pdf_gen and pages.save()
Dispatch ==
    \/ /\ pc = "idle"
       /\ served' = served
    \/ /\ pc = "popup"
       /\ served < MaxWaitEvents
       /\ served' = served + 1

\* update_card_count(card, delta), the "+" and "-" buttons of a card
UpdateCardCount(card, delta) ==
    /\ Dispatch
    /\ card \in DOMAIN card_vars
    /\ LET current == card_vars[card]
           new_val == NewVal(current, delta)
       IN  /\ new_val <= MaxField
           /\ card_vars' = [card_vars EXCEPT ![card] = new_val]
           /\ p_dict' = [p_dict EXCEPT !.cards = SetCount(@, card, new_val)]
    /\ UNCHANGED <<size, pc, cols, rows, rx, ry, total_cards, pbreak, i, k,
                   n, cy, cx, pages, err, calls, first, crop_dir, print_json,
                   arg, geo1, display, outer>>

\* the user types v into the count entry of a card: the Entry writes its
\* IntVar, no callback is bound to it
EditEntry(card, v) ==
    /\ Dispatch
    /\ card \in DOMAIN card_vars
    /\ card_vars' = [card_vars EXCEPT ![card] = v]
    /\ UNCHANGED <<p_dict, size, pc, cols, rows, rx, ry, total_cards, pbreak,
                   i, k, n, cy, cx, pages, err, calls, first, crop_dir,
                   print_json, arg, geo1, display, outer>>

\* update_paper_size, the Letter, A4 and Legal radio buttons
UpdatePaperSize(name) ==
    /\ Dispatch
    /\ p_dict' = [p_dict EXCEPT !.pagesize = name]
    /\ UNCHANGED <<size, pc, cols, rows, rx, ry, total_cards, pbreak, i, k,
                   n, cy, cx, pages, err, calls, first, crop_dir, card_vars,
                   print_json, arg, geo1, display, outer>>

\* update_orientation, the Portrait and Landscape radio buttons
UpdateOrientation(orient) ==
    /\ Dispatch
    /\ p_dict' = [p_dict EXCEPT !.orient = orient]
    /\ UNCHANGED <<size, pc, cols, rows, rx, ry, total_cards, pbreak, i, k,
                   n, cy, cx, pages, err, calls, first, crop_dir, card_vars,
                   print_json, arg, geo1, display, outer>>

\* run_cropper: crop_images writes the files found (any of those not yet
\* in images/crop), new files become keys with count 1, refresh_cards
RunCropper ==
    /\ Dispatch
    /\ \E found \in SUBSET (Found \ crop_dir) :
          /\ crop_dir' = crop_dir \cup found
          /\ \E l \in Listings(crop_dir') :
                p_dict' = [p_dict EXCEPT !.cards = AddNew(@, l)]
    /\ card_vars' = Refreshed(p_dict'.cards, crop_dir')
    /\ UNCHANGED <<size, pc, cols, rows, rx, ry, total_cards, pbreak, i, k,
                   n, cy, cx, pages, err, calls, first, print_json, arg,
                   geo1, display, outer>>

\* save_project: json.dump(print_dict)
SaveProject ==
    /\ Dispatch
    /\ print_json' = <<p_dict>>
    /\ UNCHANGED <<p_dict, size, pc, cols, rows, rx, ry, total_cards, pbreak,
                   i, k, n, cy, cx, pages, err, calls, first, crop_dir,
                   card_vars, arg, geo1, display, outer>>

\* the application is closed and started again: __init__ loads the project
\* and setup_ui refreshes the cards
Restart ==
    /\ pc = "idle"
    /\ \E l \in Listings(crop_dir) : p_dict' = Loaded(print_json, l)
    /\ card_vars' = Refreshed(p_dict'.cards, crop_dir)
    /\ UNCHANGED <<size, pc, cols, rows, rx, ry, total_cards, pbreak, i, k,
                   n, cy, cx, pages, err, calls, first, crop_dir, print_json,
                   arg, geo1, display, served, outer>>

\* the locals of the pdf_gen call under way: its argument, its geometry,
\* its loop positions and its canvas
Frame ==
    [size |-> size, cols |-> cols, rows |-> rows, rx |-> rx, ry |-> ry,
     total_cards |-> total_cards, pbreak |-> pbreak, i |-> i, k |-> k,
     n |-> n, cy |-> cy, cx |-> cx, pages |-> pages]

\* render_pdf, the "Render PDF" button:
\* pdf_gen(self.print_dict, size_map[self.print_dict["pagesize"]]).
\* Nothing keeps the command from being served while an earlier render_pdf
\* stands in the wait_window of show_popup: the earlier call stays
\* suspended there, its canvas drawn and not yet saved, and a second pdf_gen
\* starts inside it with a canvas of its own on the same file
RenderPdf ==
    /\ \/ /\ pc = "idle"
          /\ outer' = outer
       \/ /\ pc = "popup"
          /\ Len(outer) < MaxNested
          /\ outer' = Append(outer, Frame)
    /\ PdfGen(size_map(p_dict.pagesize))

\* pdf_gen has returned or raised and render_pdf ends: the argument, the
\* locals and the canvas of the call are gone.  With no call suspended,
\* mainloop takes the next callback (the count of calls starts again).  With
\* one suspended, control is back in its wait_window, in front of its
\* pages.save(): the canvas of the older call is saved after, and over, the
\* file the newer call has just written
RenderReturn ==
    /\ pc \in {"done", "error"}
    /\ IF outer = <<>>
       THEN /\ pc' = "idle"
            /\ size' = Letter
            /\ cols' = 0 /\ rows' = 0 /\ rx' = 0 /\ ry' = 0
            /\ total_cards' = 0 /\ pbreak' = 0
            /\ i' = 0 /\ k' = 1 /\ n' = 0
            /\ cy' = 0 /\ cx' = 0
            /\ pages' = NoCanvas
            /\ served' = 0
            /\ calls' = 0
            /\ outer' = outer
       ELSE LET f == outer[Len(outer)]
            IN  /\ pc' = "popup"
                /\ size' = f.size
                /\ cols' = f.cols /\ rows' = f.rows
                /\ rx' = f.rx /\ ry' = f.ry
                /\ total_cards' = f.total_cards /\ pbreak' = f.pbreak
                /\ i' = f.i /\ k' = f.k /\ n' = f.n
                /\ cy' = f.cy /\ cx' = f.cx
                /\ pages' = f.pages
                /\ served' = served
                /\ calls' = calls - 1
                /\ outer' = SubSeq(outer, 1, Len(outer) - 1)
    /\ err' = ""
    /\ first' = <<>>
    /\ UNCHANGED <<p_dict, crop_dir, card_vars, print_json, arg, geo1,
                   display>>

\* the sizes of size_map hold a card in both orientations, every key is a
\* file of images/crop, which only grows, and the GUI runs on a display:
\* neither the division by zero, nor the failing drawImage, nor the failing
\* popup occurs.
NextGui ==
    \/ RenderPdf \/ NextImg \/ Place \/ Cross \/ ShowPopup \/ Finish
    \/ RenderReturn
    \/ \E card \in Imgs : \E delta \in {1, -1} : UpdateCardCount(card, delta)
    \/ \E card \in Imgs : \E v \in (-1)..MaxField : EditEntry(card, v)
    \/ \E name \in PageSizes : UpdatePaperSize(name)
    \/ \E orient \in Orients : UpdateOrientation(orient)
    \/ RunCropper
    \/ SaveProject
    \/ Restart

SpecGui == InitGui /\ [][NextGui]_vars

\* ------------------------------------------------- draw_cross on its own
\* abscissas and ordinates of the points handed to draw_cross
Coords == {0, 38 * Pt, 38 * Pt + CW}

InitDraw ==
    /\ p_dict = [cards |-> <<>>, orient |-> "Portrait", pagesize |-> "Letter"]
    /\ size = Letter
    /\ display = TRUE
    /\ served = 0
    /\ outer = <<>>
    /\ pc = "idle"
    /\ cols = 0 /\ rows = 0 /\ rx = 0 /\ ry = 0
    /\ total_cards = 0 /\ pbreak = 0 /\ i = 0 /\ k = 1 /\ n = 0
    /\ cy = 0 /\ cx = 0
    /\ pages = NewCanvas(Letter)
    /\ err = ""
    /\ calls = 0
    /\ first = <<>>
    /\ crop_dir = Imgs
    /\ card_vars = <<>>
    /\ print_json = <<>>
    /\ geo1 = <<>>
    /\ arg \in [x : Coords, y : Coords, c : 1..MaxHalf, s : 1..MaxWidth,
                n : {0}]

\* draw_cross(pages, x, y, c, s) called on the canvas as it stands
DrawCall ==
    /\ arg.n < MaxDraws
    /\ pages' = draw_cross(pages, arg.x, arg.y, arg.c, arg.s)
    /\ arg' = [arg EXCEPT !.n = @ + 1]
    /\ UNCHANGED <<p_dict, size, pc, cols, rows, rx, ry, total_cards, pbreak,
                   i, k, n, cy, cx, err, calls, first, crop_dir, card_vars,
                   print_json, geo1, display, served, outer>>

NextDraw == DrawCall

SpecDraw == InitDraw /\ [][NextDraw]_vars

\* ------------------------------------------------ the call log as events
\* Place = a drawImage call, PageBreak = a showPage call, MarkPage = a
\* maximal run of consecutive line calls (one pass of the mark loops)
Ops == pages.ops
Cards == p_dict.cards
IsPlace(e) == e.op = "drawImage"
IsBreak(e) == e.op = "showPage"
IsLine(e) == e.op = "line"

PlacePos == {p \in DOMAIN Ops : IsPlace(Ops[p])}
BreakPos == {p \in DOMAIN Ops : IsBreak(Ops[p])}
\* first line call of each MarkPage
MarkPos == {p \in DOMAIN Ops :
              IsLine(Ops[p]) /\ (p = 1 \/ ~IsLine(Ops[p - 1]))}
\* last line call of the MarkPage that starts at p
MarkEnd(p) ==
    CHOOSE e \in p..Len(Ops) :
        /\ e = Len(Ops) \/ ~IsLine(Ops[e + 1])
        /\ \A q \in p..e : IsLine(Ops[q])

Places == SelectSeq(Ops, IsPlace)

\* the mapping's keys in insertion order, each repeated count times
RECURSIVE Flatten(_)
Flatten(cards) ==
    IF cards = <<>> THEN <<>>
    ELSE [q \in 1..cards[1][2] |-> cards[1][1]] \o Flatten(Tail(cards))

\* N, the number of cards of the project
N == Len(Flatten(Cards))
Ceil(a, b) == (a + b - 1) \div b

TypeOK ==
    /\ pc \in {"idle", "loop", "marks", "popup", "done", "error"}
    /\ cols >= 0 /\ rows >= 0
    /\ i >= 0

\* ------------------------------------------------------------------ claims
\* C1: with N > 0 cards and cards_per_page >= 1, a completed pdf_gen has
\* issued exactly N drawImage calls, whose images are, in order, the keys of
\* the mapping in insertion order, each repeated count times contiguously.
C1_PlacesFollowMapping ==
    (pc = "done" /\ N > 0 /\ pbreak >= 1) =>
        /\ Len(Places) = N
        /\ \A p \in 1..N : Places[p].img = ImgPath(Flatten(Cards)[p])

\* a completed call on a mapping of two keys, each with at least two copies
C1_Witness ==
    /\ pc = "done" /\ pbreak >= 1
    /\ Len(Cards) = 2 /\ Cards[1][2] >= 2 /\ Cards[2][2] >= 2
    /\ Len(Places) = N

\* C2: with N > 0 and cards_per_page >= 1, a completed pdf_gen has issued
\* ceil(N / cards_per_page) - 1 showPage calls, a number that is never
\* negative.
C2_PageBreakCount ==
    (pc = "done" /\ N > 0 /\ pbreak >= 1) =>
        /\ Cardinality(BreakPos) = Ceil(N, pbreak) - 1
        /\ Ceil(N, pbreak) - 1 >= 0

\* a completed call that needed three pages or more
C2_Witness ==
    /\ pc = "done" /\ N > 0 /\ pbreak >= 1
    /\ Cardinality(BreakPos) >= 2

\* C3: with N > 0 and cards_per_page >= 1, a completed pdf_gen has made
\* ceil(N / cards_per_page) passes of cross drawing, one per page used; the
\* final page has its pass also when it is partially filled.
C3_MarkPageCount ==
    (pc = "done" /\ N > 0 /\ pbreak >= 1) =>
        /\ Cardinality(MarkPos) = Ceil(N, pbreak)
        /\ IsLine(Ops[Len(Ops)])

\* a completed call of two pages or more whose last page is partially filled
C3_Witness ==
    /\ pc = "done" /\ pbreak >= 2
    /\ N > pbreak /\ N % pbreak # 0
    /\ Cardinality(MarkPos) >= 2

\* centre of a stroked segment
Centre(e) == <<(e.x1 + e.x2) \div 2, (e.y1 + e.y2) \div 2>>
\* the intersection grid of the page: (margin_x + cx*CW, margin_y + cy*CH)
Grid == {<<rx * Pt + x * CW, ry * Pt + y * CH>> : x \in 0..cols, y \in 0..rows}

\* C4: every completed MarkPage, on full and partially filled pages alike,
\* draws its crosses at exactly (rows+1)*(cols+1) distinct points, the points
\* (margin_x + cx*CW, margin_y + cy*CH) for cx in 0..cols and cy in 0..rows.
C4_MarkPageGrid ==
    pc # "marks" =>
        \A m \in MarkPos :
            LET cnt == (rows + 1) * (cols + 1)
                pts == {Centre(Ops[m + 4 * q]) : q \in 0..(cnt - 1)}
            IN  /\ MarkEnd(m) - m + 1 = 4 * cnt
                /\ \A q \in m..MarkEnd(m) :
                      Centre(Ops[q]) = Centre(Ops[m + 4 * ((q - m) \div 4)])
                /\ pts = Grid
                /\ Cardinality(pts) = cnt

\* a completed call of two pages or more, several columns, the last page
\* partially filled
C4_Witness ==
    /\ pc = "done" /\ cols >= 2 /\ rows >= 1
    /\ Cardinality(MarkPos) >= 2
    /\ N % pbreak # 0

\* C5: when cards_per_page = 0, a call ends in a reported configuration
\* error with no drawing call made, for every mapping: not in a division by
\* zero and not in a silent normal completion.
C5_ZeroCapacityFailsFast ==
    (calls >= 1 /\ pbreak = 0 /\ pc \in {"done", "error"}) =>
        /\ pc = "error"
        /\ err = "ConfigurationError"
        /\ Ops = <<>>

\* C6: an empty project (no key, or every count 0) makes no drawImage, no
\* showPage and no line call, and its call does not end in an error.
C6_EmptyProjectNoEvents ==
    N = 0 =>
        /\ Ops = <<>>
        /\ pc # "error" /\ err = ""

\* a completed call on a mapping whose counts are all 0
C6_Witness ==
    /\ pc = "done" /\ N = 0 /\ Len(Cards) >= 1 /\ pages.saved

\* index of the Place at position pos: the number of Places before it
PlaceIndex(pos) == Cardinality({q \in PlacePos : q < pos})
\* page of position pos: the number of PageBreaks before it
PageOf(pos) == Cardinality({b \in BreakPos : b < pos})

\* C7: showPage is called immediately before the drawImage of index i exactly
\* when i > 0 and i mod cards_per_page = 0 and nowhere else: i div
\* cards_per_page showPage calls precede that drawImage, none precedes the
\* first drawImage and none follows the last.
C7_PageBreakPlacement ==
    pbreak >= 1 =>
        /\ \A pos \in PlacePos :
              LET idx == PlaceIndex(pos)
              IN  /\ (pos > 1 /\ IsBreak(Ops[pos - 1]))
                        <=> (idx > 0 /\ idx % pbreak = 0)
                  /\ PageOf(pos) = idx \div pbreak
        /\ \A b \in BreakPos :
              /\ b < Len(Ops) /\ IsPlace(Ops[b + 1])
              /\ \E q \in PlacePos : q < b

\* a completed call of three full pages or more
C7_Witness ==
    /\ pc = "done" /\ pbreak >= 2
    /\ Cardinality(BreakPos) >= 2
    /\ N % pbreak = 0

\* C8: no Place follows a MarkPage without a PageBreak in between, every
\* PageBreak has a MarkPage since the previous PageBreak (or the start), the
\* MarkPage of a page comes after every Place of that page, a completed call
\* has exactly one MarkPage on each page, and for N > 0 its last event is a
\* MarkPage.
C8_MarkPagePlacement ==
    pbreak >= 1 =>
        /\ \A q \in PlacePos : q > 1 => ~IsLine(Ops[q - 1])
        /\ \A b \in BreakPos :
              \E m \in MarkPos : m < b /\ PageOf(m) = PageOf(b)
        /\ \A m \in MarkPos : \A q \in PlacePos :
              PageOf(q) = PageOf(m) => q < m
        /\ \A m1, m2 \in MarkPos : PageOf(m1) = PageOf(m2) => m1 = m2
        /\ (pc = "done" /\ N > 0) =>
              /\ \A g \in 0..Cardinality(BreakPos) :
                    \E m \in MarkPos : PageOf(m) = g
              /\ IsLine(Ops[Len(Ops)])

\* a completed call of two pages or more with several cards on the last page
C8_Witness ==
    /\ pc = "done" /\ pbreak >= 2
    /\ Cardinality(BreakPos) >= 1
    /\ N % pbreak # 1
    /\ Cardinality(MarkPos) = Cardinality(BreakPos) + 1

\* C9: a second call of pdf_gen on the same project, page size and
\* orientation produces the call log of the first call; the running index
\* counts the drawImage calls of the current call only.
C9_SameInputSameEvents ==
    /\ (calls >= 2 /\ pc \in {"done", "error"}) => Ops = first
    /\ pc = "loop" => i = Len(Places)
    /\ pc = "marks" => i = Len(Places) - 1

\* a completed second call that drew several pages
C9_Witness ==
    /\ calls = 2 /\ pc = "done"
    /\ Cardinality(BreakPos) >= 1
    /\ Ops = first

Vertical(e) == e.x1 = e.x2 /\ e.y1 < e.y2
Horizontal(e) == e.y1 = e.y2 /\ e.x1 < e.x2
Dashed(e) == e.dash # <<>>
Solid(e) == e.dash = <<>>

VSeg == <<arg.x, arg.y - arg.c * Pt, arg.x, arg.y + arg.c * Pt>>
HSeg == <<arg.x - arg.c * Pt, arg.y, arg.x + arg.c * Pt, arg.y>>
Seg(e) == <<e.x1, e.y1, e.x2, e.y2>>

\* C11: a call draw_cross(can, x, y, c, s) makes four line calls and no other
\* drawing call; each stroke is the vertical segment (x, y-c)-(x, y+c) or the
\* horizontal segment (x-c, y)-(x+c, y), at line width s, and each of the
\* two segments is stroked exactly twice, once white and once black.
C11_CrossSegments ==
    /\ Len(Ops) = 4 * arg.n
    /\ \A p \in DOMAIN Ops :
          /\ IsLine(Ops[p])
          /\ Seg(Ops[p]) \in {VSeg, HSeg}
          /\ Ops[p].width = arg.s
    /\ \A g \in 0..(arg.n - 1) : \A sg \in {VSeg, HSeg} :
          \A col \in {White, Black} :
              Cardinality({p \in (4 * g + 1)..(4 * g + 4) :
                              Seg(Ops[p]) = sg /\ Ops[p].color = col}) = 1

\* two calls made with a half-length and a width that are not the defaults
C11_Witness ==
    /\ arg.n = 2 /\ arg.c # DefaultC /\ arg.s # DefaultS
    /\ arg.x > 0 /\ arg.y > 0
    /\ Len(Ops) = 8

\* C12: when drawImage raises on an image the writer cannot open, the call
\* ends in that error: the document is not saved, the drawImage calls made
\* are those of the cards before the failing one (none skipped, none after
\* it), and a call that ends normally has drawn every card.
C12_MissingImageAborts ==
    /\ err = "OSError" =>
          /\ pc = "error"
          /\ ~pages.saved /\ pages.saves = 0
          /\ Len(Places) = i /\ i < N
          /\ Flatten(Cards)[i + 1] \notin crop_dir
          /\ \A p \in 1..i : Places[p].img = ImgPath(Flatten(Cards)[p])
          /\ Ops # <<>> => ~IsLine(Ops[Len(Ops)])
    /\ (pc = "done" /\ pbreak >= 1) =>
          /\ Len(Places) = N
          /\ \A p \in 1..N : Flatten(Cards)[p] \in crop_dir

\* a call aborted on the first card of its second key, after a full page
C12_Witness ==
    /\ pc = "error" /\ err = "OSError"
    /\ Len(Places) >= 2 /\ Cardinality(MarkPos) >= 1
    /\ k = 2

\* C13: a call that ends normally has saved the document exactly once, after
\* its last drawing call; no drawing call is made on a saved document, and
\* the document is not saved while the loops run.
C13_SavedOnceAtEnd ==
    /\ pc = "done" => pages.saved /\ pages.saves = 1
    /\ pages.saves >= 1 => pages.savedAt = Len(Ops) /\ pc = "done"
    /\ pc \in {"loop", "marks", "popup"} => ~pages.saved /\ pages.saves = 0

\* a call of several pages has ended normally and saved the document
C13_Witness ==
    /\ pc = "done" /\ pages.saves = 1
    /\ Cardinality(BreakPos) >= 1
    /\ pages.savedAt = Len(Ops)

\* C14: the drawImage of running index i, with j = i mod cards_per_page,
\* row = j div cols and col = j mod cols, is made at (col*CW + margin_x,
\* row*CH + margin_y) with size (CW, CH), and 0 <= row < rows and
\* 0 <= col < cols; no two drawImage calls of a page share a cell and no page
\* gets more than cards_per_page of them.
C14_PlaceCells ==
    pbreak >= 1 =>
        /\ \A pos \in PlacePos :
              LET j == PlaceIndex(pos) % pbreak
                  row == j \div cols
                  col == j % cols
                  e == Ops[pos]
              IN  /\ e.x = col * CW + rx * Pt
                  /\ e.y = row * CH + ry * Pt
                  /\ e.w = CW /\ e.h = CH
                  /\ 0 <= row /\ row < rows
                  /\ 0 <= col /\ col < cols
        /\ \A q1, q2 \in PlacePos :
              (q1 # q2 /\ PageOf(q1) = PageOf(q2)) =>
                  <<Ops[q1].x, Ops[q1].y>> # <<Ops[q2].x, Ops[q2].y>>
        /\ \A g \in 0..Cardinality(BreakPos) :
              Cardinality({q \in PlacePos : PageOf(q) = g}) <= pbreak

\* a completed call of two pages on a grid of several rows and columns
C14_Witness ==
    /\ pc = "done" /\ cols >= 2 /\ rows >= 2
    /\ Cardinality(BreakPos) >= 1
    /\ \E q \in PlacePos : Ops[q].x > rx * Pt /\ Ops[q].y > ry * Pt

\* a <= b for two doubles kept as hundredths and rounding error: the errors
\* are far below a hundredth, so the hundredths decide unless they are equal
RealLeq(Ha, ea, Hb, eb) == Ha < Hb \/ (Ha = Hb /\ ea <= eb)

\* c = floor(x / y) for the double x = (H, e) and the card side y = (Hc, ec):
\* c cards fit in x and c + 1 do not
IsFloor(c, H, e, Hc, ec) ==
    /\ c \in Nat
    /\ RealLeq(c * Hc, c * ec, H, e)
    /\ ~RealLeq((c + 1) * Hc, (c + 1) * ec, H, e)

\* C15: the page is (height, width) of the supplied pair when orient is
\* "Landscape" and the pair as supplied for any other value; cols is
\* floor(page_width / CW) and rows is floor(page_height / CH) of that page,
\* for the page sides as the doubles pdf_gen is handed and the card sides
\* both as the doubles 2.48 * 72 and 3.46 * 72 and as 178.56 and 249.12; and
\* a call on (b, a), Portrait has the geometry (cols, rows, margins) and the
\* call log of the call on (a, b), Landscape.
C15_OrientationSwaps ==
    /\ calls >= 1 =>
          LET pw == IF p_dict.orient = "Landscape" THEN size[2] ELSE size[1]
              ph == IF p_dict.orient = "Landscape" THEN size[1] ELSE size[2]
          IN  /\ pages.pagesize = <<pw, ph>>
              /\ IsFloor(cols, pw, Literal(pw), CW, wErr)
              /\ IsFloor(cols, pw, Literal(pw), CW, 0)
              /\ IsFloor(rows, ph, Literal(ph), CH, hErr)
              /\ IsFloor(rows, ph, Literal(ph), CH, 0)
    /\ (geo1 # <<>> /\ calls = 2 /\ pc \in {"done", "error"}) =>
          /\ <<cols, rows, rx, ry>> = geo1
          /\ Ops = first

\* the call on the transposed Letter page, after the Landscape call on
\* Letter, has ended after drawing cards on a grid of 4 by 2
C15_Witness ==
    /\ geo1 # <<>> /\ calls = 2 /\ pc = "done"
    /\ size = <<Letter[2], Letter[1]>> /\ p_dict.orient = "Portrait"
    /\ cols = 4 /\ rows = 2
    /\ Len(Places) >= 2

\* C18: with cols >= 1 and rows >= 1 the rounded margins keep the grid on
\* the page: 0 <= margin_x, margin_x + cols*CW <= page_width, 0 <= margin_y,
\* margin_y + rows*CH <= page_height; every drawImage rectangle and every
\* mark intersection lies within the page, in both orientations.
C18_GridOnPage ==
    (calls >= 1 /\ cols >= 1 /\ rows >= 1) =>
        LET pw == pages.pagesize[1]
            ph == pages.pagesize[2]
        IN  /\ 0 <= rx /\ rx * Pt + cols * CW <= pw
            /\ 0 <= ry /\ ry * Pt + rows * CH <= ph
            /\ \A q \in PlacePos :
                  /\ 0 <= Ops[q].x /\ Ops[q].x + Ops[q].w <= pw
                  /\ 0 <= Ops[q].y /\ Ops[q].y + Ops[q].h <= ph
            /\ \A m \in MarkPos : \A q \in m..MarkEnd(m) :
                  /\ 0 <= Centre(Ops[q])[1] /\ Centre(Ops[q])[1] <= pw
                  /\ 0 <= Centre(Ops[q])[2] /\ Centre(Ops[q])[2] <= ph

\* a completed Landscape call on a page with half a point of room across
\* and a point and a half of room down: margins 0 and 1
C18_Witness ==
    /\ pc = "done" /\ p_dict.orient = "Landscape"
    /\ cols >= 1 /\ rows >= 1
    /\ pages.pagesize[1] - cols * CW = 50 /\ rx = 0
    /\ pages.pagesize[2] - rows * CH = 150 /\ ry = 1
    /\ Len(Places) >= 2

\* C16: in every state the GUI reaches by loading a project, "+" and "-"
\* presses, entry edits, changes of paper size and orientation, cropper
\* runs, saves and restarts, in mainloop or in the wait of a render, every
\* count of print_dict["cards"] is an integer >= 0, so is every count of a
\* saved project, and so is the sum pdf_gen computes from the mapping it is
\* handed, also when render_pdf runs inside the wait of another render.
C16_CountsNonNegative ==
    /\ \A q \in DOMAIN Cards : Cards[q][2] \in Nat
    /\ print_json # <<>> =>
          \A q \in DOMAIN print_json[1].cards :
              print_json[1].cards[q][2] \in Nat
    /\ pc \in {"loop", "marks", "popup", "done"} => total_cards \in Nat
    /\ \A q \in DOMAIN outer : outer[q].total_cards \in Nat

\* render_pdf, served in the wait of an earlier render, has handed pdf_gen,
\* for a Legal page in Landscape, the mapping of a saved project whose card
\* was brought down to 0, while the entry of the card shows a negative number
C16_Witness ==
    /\ pc = "loop" /\ Len(Cards) >= 1
    /\ outer # <<>>
    /\ \E q \in DOMAIN Cards : Cards[q][2] = 0
    /\ \E c \in DOMAIN card_vars : card_vars[c] < 0
    /\ print_json # <<>>
    /\ p_dict.orient = "Landscape" /\ size = Legal

\* C17: the number shown in the count entry of every displayed card is the
\* count of that card in print_dict["cards"].
C17_DisplayEqualsProject ==
    \A c \in DOMAIN card_vars : card_vars[c] = CountOf(Cards, c)
====
